---- MODULE Spec2Model ----
(***************************************************************************)
(* Model of the TTL-LRU cache of Rish-XO/LRUcache (type LRUCache).         *)
(*                                                                         *)
(* The recency list c.ll (container/list) is a sequence of CacheItem       *)
(* records, front first.  A *list.Element pointer is represented by the    *)
(* position its element currently has in the list; every list operation   *)
(* that shifts elements renames the pointers held in c.items the same way, *)
(* so pointer identity is kept.  Detached (0) is a pointer to an element   *)
(* that is no longer linked in the list.                                   *)
(***************************************************************************)
EXTENDS Integers, Sequences, FiniteSets, TLC

\* ---- bounds of the model ----
\* number of distinct keys the callers use
NumKeys == 3
\* largest capacity a store is constructed with
MaxCapacity == 2
\* last instant of the clock
MaxTime == 1
\* number of concurrent callers
NumCallers == 2

\* key i stands for the string "key<i>"
Keys == 1..NumKeys
\* values are opaque strings, the empty string included
EmptyString == ""
Values == {EmptyString, "value1"}
\* durations passed to Set, in units of the clock: zero and positive
TTLs == {0, 1}

Detached == 0

Callers == 1..NumCallers

VARIABLES capacity, items, ll, now, last, touch, inserted, mu, loc, lastSet, rewrote,
          pc, cache, mainCache, req, resp, missed

storeVars == <<capacity, items, ll>>
callVars == <<mu, loc, lastSet, rewrote>>
\* pc: the statement of func main that runs next
\* cache: the package-level variable cache of the HTTP program; mainCache: the
\* variable cache declared in its func main; req: the request being handled;
\* resp: the last response written
serverVars == <<cache, mainCache, req, resp>>
mainVars == <<pc, cache, mainCache, req, resp>>
vars == <<capacity, items, ll, now, last, touch, inserted, mu, loc, lastSet, rewrote,
          pc, cache, mainCache, req, resp, missed>>

\* ---- type CacheItem struct { Key; Value; Exp } ----
CacheItem(key, value, exp) == [Key |-> key, Value |-> value, Exp |-> exp]

\* the store as a value: the list and the index
Store(l, m) == [ll |-> l, items |-> m]

\* ---- container/list operations used by the cache ----
Linked(s, e) == e \in 1..Len(s.ll)

WithoutAt(l, e) == SubSeq(l, 1, e - 1) \o SubSeq(l, e + 1, Len(l))

\* where a pointer q points after l.MoveToFront(e), l.PushFront(v), l.Remove(e)
MovedPtr(l, e, q) ==
    IF e \notin 1..Len(l) \/ e = 1 THEN q
    ELSE IF q = e THEN 1
    ELSE IF q \in 1..(e - 1) THEN q + 1
    ELSE q

PushedPtr(q) == IF q = Detached THEN Detached ELSE q + 1

RemovedPtr(l, e, q) ==
    IF e \notin 1..Len(l) THEN q
    ELSE IF q = e THEN Detached
    ELSE IF q > e THEN q - 1
    ELSE q

\* MoveToFront that leaves the list as it is
MoveToFrontStays(s, e) == s

\* l.MoveToFront(e): no-op when e is not in the list or already first
MoveToFront(s, e) ==
    IF ~Linked(s, e) \/ e = 1 THEN s
    ELSE Store(<<s.ll[e]>> \o WithoutAt(s.ll, e),
               [k \in DOMAIN s.items |-> MovedPtr(s.ll, e, s.items[k])])

\* l.PushFront(v): the new element is at position 1
PushFront(s, v) ==
    Store(<<v>> \o s.ll, [k \in DOMAIN s.items |-> PushedPtr(s.items[k])])

\* l.Remove(e): unlinks e when it is in the list
Remove(s, e) ==
    IF ~Linked(s, e) THEN s
    ELSE Store(WithoutAt(s.ll, e),
               [k \in DOMAIN s.items |-> RemovedPtr(s.ll, e, s.items[k])])

\* Back that answers the first element
BackIsFront(s) == IF Len(s.ll) > 0 THEN 1 ELSE 0

\* l.Back(): last element, or nil (Detached) for an empty list
Back(s) == Len(s.ll)

\* delete(m, key)
MapDelete(m, key) == [k \in (DOMAIN m) \ {key} |-> m[k]]

\* m[key] = e
MapPut(m, key, e) == [k \in (DOMAIN m) \cup {key} |-> IF k = key THEN e ELSE m[k]]

\* removeElement without the delete from the index
removeElementKeepsIndex(s, ele) == Remove(s, ele)

\* ---- func (c *LRUCache) removeElement(ele) ----
removeElement(s, ele) ==
    LET item == s.ll[ele]
        s1 == Remove(s, ele)
    IN  Store(s1.ll, MapDelete(s1.items, item.Key))

\* removeOldest that evicts nothing
removeOldestSkips(s) == s

\* removeOldest that evicts an expired entry when there is one
removeOldestExpiredFirst(s) ==
    LET expired == {i \in 1..Len(s.ll) : now > s.ll[i].Exp}
    IN  IF expired # {} THEN removeElement(s, CHOOSE i \in expired : TRUE)
        ELSE IF Len(s.ll) > 0 THEN removeElement(s, Len(s.ll))
        ELSE s

\* ---- func (c *LRUCache) removeOldest() ----
removeOldest(s) ==
    LET ele == Back(s)
    IN  IF ele # Detached THEN removeElement(s, ele) ELSE s

\* After that is one clock unit late
AfterLate(t, u) == t > u + 1

\* After that also holds at the instant itself
AfterOrEqual(t, u) == t >= u

\* time.Now().After(item.Exp)
After(t, u) == t > u

\* Get that does not move the element it finds
GetOpNoMove(s, key, t) ==
    IF key \in DOMAIN s.items
    THEN LET ele == s.items[key]
             item == s.ll[ele]
         IN  IF t > item.Exp
             THEN [s |-> Store(WithoutAt(s.ll, ele),
                               [k \in (DOMAIN s.items) \ {key} |->
                                   IF s.items[k] > ele THEN s.items[k] - 1 ELSE s.items[k]]),
                   value |-> "", ok |-> FALSE]
             ELSE [s |-> s, value |-> item.Value, ok |-> TRUE]
    ELSE [s |-> s, value |-> "", ok |-> FALSE]

\* Get that evicts the oldest entry when it misses
GetOpMissEvicts(s, key, t) ==
    IF key \in DOMAIN s.items
    THEN LET ele == s.items[key]
             l1 == <<s.ll[ele]>> \o WithoutAt(s.ll, ele)
         IN  IF t > s.ll[ele].Exp
             THEN [s |-> Store(WithoutAt(s.ll, ele),
                               [k \in (DOMAIN s.items) \ {key} |->
                                   IF s.items[k] > ele THEN s.items[k] - 1 ELSE s.items[k]]),
                   value |-> "", ok |-> FALSE]
             ELSE [s |-> Store(l1, [k \in DOMAIN s.items |->
                                   IF k = key THEN 1
                                   ELSE IF s.items[k] < ele THEN s.items[k] + 1
                                   ELSE s.items[k]]),
                   value |-> s.ll[ele].Value, ok |-> TRUE]
    ELSE [s |-> IF Len(s.ll) > 0
                THEN Store(SubSeq(s.ll, 1, Len(s.ll) - 1),
                           [k \in (DOMAIN s.items) \ {s.ll[Len(s.ll)].Key} |-> s.items[k]])
                ELSE s,
          value |-> "", ok |-> FALSE]

\* Get that reports an expired entry as not found but leaves it in the store
GetOpExpiredStays(s, key, t) ==
    IF key \in DOMAIN s.items
    THEN LET ele == s.items[key]
             l1 == <<s.ll[ele]>> \o WithoutAt(s.ll, ele)
             s1 == Store(l1, [k \in DOMAIN s.items |->
                                   IF k = key THEN 1
                                   ELSE IF s.items[k] < ele THEN s.items[k] + 1
                                   ELSE s.items[k]])
         IN  IF t > s.ll[ele].Exp
             THEN [s |-> s1, value |-> "", ok |-> FALSE]
             ELSE [s |-> s1, value |-> s.ll[ele].Value, ok |-> TRUE]
    ELSE [s |-> s, value |-> "", ok |-> FALSE]

\* Get that, when it finds the entry, extends its expiry by one clock unit
GetOpExtends(s, key, t) ==
    IF key \in DOMAIN s.items
    THEN LET s1 == MoveToFront(s, s.items[key])
             ele == s1.items[key]
             item == s1.ll[ele]
         IN  IF t > item.Exp
             THEN [s |-> removeElement(s1, ele), value |-> "", ok |-> FALSE]
             ELSE [s |-> Store([s1.ll EXCEPT ![ele].Exp = t + 1], s1.items),
                   value |-> item.Value, ok |-> TRUE]
    ELSE [s |-> s, value |-> "", ok |-> FALSE]

\* Get that reports an expired entry as not found, but keeps it and renews
\* its expiry instead of removing it
GetOpMissRenews(s, key, t) ==
    IF key \in DOMAIN s.items
    THEN LET s1 == MoveToFront(s, s.items[key])
             ele == s1.items[key]
             item == s1.ll[ele]
         IN  IF t > item.Exp
             THEN [s |-> Store([s1.ll EXCEPT ![ele].Exp = t], s1.items),
                   value |-> "", ok |-> FALSE]
             ELSE [s |-> s1, value |-> item.Value, ok |-> TRUE]
    ELSE [s |-> s, value |-> "", ok |-> FALSE]

\* ---- func (c *LRUCache) Get(key) (string, bool) ----
\* the store after the call and the two results
GetOp(s, key, t) ==
    IF key \in DOMAIN s.items
    THEN LET s1 == MoveToFront(s, s.items[key])
             ele == s1.items[key]
             item == s1.ll[ele]
         IN  IF After(t, item.Exp)
             THEN [s |-> removeElement(s1, ele), value |-> EmptyString, ok |-> FALSE]
             ELSE [s |-> s1, value |-> item.Value, ok |-> TRUE]
    ELSE [s |-> s, value |-> EmptyString, ok |-> FALSE]

\* Set that, on a key already present, writes the value but not the expiry
SetOpStaleExp(s, cap, key, value, exp, t) ==
    IF key \in DOMAIN s.items
    THEN LET ele == s.items[key]
             l1 == <<[s.ll[ele] EXCEPT !.Value = value]>> \o WithoutAt(s.ll, ele)
         IN  Store(l1, [k \in DOMAIN s.items |->
                           IF k = key THEN 1
                           ELSE IF s.items[k] < ele THEN s.items[k] + 1
                           ELSE s.items[k]])
    ELSE LET l1 == <<[Key |-> key, Value |-> value, Exp |-> t + exp]>> \o s.ll
             m1 == [k \in (DOMAIN s.items) \cup {key} |->
                       IF k = key THEN 1 ELSE s.items[k] + 1]
         IN  IF Len(l1) > cap
             THEN Store(SubSeq(l1, 1, Len(l1) - 1),
                        [k \in (DOMAIN m1) \ {l1[Len(l1)].Key} |-> m1[k]])
             ELSE Store(l1, m1)

\* Set that evicts as soon as the store is full
SetOpEvictsWhenFull(s, cap, key, value, exp, t) ==
    IF key \in DOMAIN s.items
    THEN LET s1 == MoveToFront(s, s.items[key])
             ele == s1.items[key]
         IN  Store([s1.ll EXCEPT ![ele].Value = value, ![ele].Exp = t + exp],
                   s1.items)
    ELSE LET s1 == PushFront(s, CacheItem(key, value, t + exp))
             s2 == Store(s1.ll, MapPut(s1.items, key, 1))
         IN  IF Len(s2.ll) >= cap THEN removeOldest(s2) ELSE s2

\* ---- func (c *LRUCache) Set(key, value, exp) ----
SetOp(s, cap, key, value, exp, t) ==
    IF key \in DOMAIN s.items
    THEN LET s1 == MoveToFront(s, s.items[key])
             ele == s1.items[key]
         IN  Store([s1.ll EXCEPT ![ele].Value = value, ![ele].Exp = t + exp],
                   s1.items)
    ELSE LET s1 == PushFront(s, CacheItem(key, value, t + exp))
             s2 == Store(s1.ll, MapPut(s1.items, key, 1))
         IN  IF Len(s2.ll) > cap THEN removeOldest(s2) ELSE s2

\* ---- observation of the calls (not program state) ----
KeysOf(l) == {l[i].Key : i \in 1..Len(l)}

KeySeq(l) == [i \in 1..Len(l) |-> l[i].Key]

Without(q, k) == SelectSeq(q, LAMBDA x : x # k)

\* the entry of the list that carries key k
EntryOf(l, k) == l[CHOOSE i \in 1..Len(l) : l[i].Key = k]

\* last: the last call and what it returned.
\*   present   the key was in the index when the call started
\*   removed   the keys that left the list during the call
\*   wasOldest a Get found the key, and it was the least recently touched of
\*             several held keys
\*   live      a Set removed an entry that was not expired
\*   prev      for a Set of a new key: "expiredFull" when the call before was a
\*             Get that found its key expired in a full store, "hitOldest" when
\*             it was a Get that found the least recently touched key of a full
\*             store; the key of that Get
NoPrev == [kind |-> "none", key |-> 0]

NoCall == [op |-> "none", key |-> 0, value |-> EmptyString, ttl |-> 0, ok |-> FALSE,
           present |-> FALSE, removed |-> {}, wasOldest |-> FALSE, prev |-> NoPrev,
           live |-> FALSE]

\* touch: the held keys by last touch (a Set on the key, or a Get that found it),
\* most recent first
TouchAfter(t, key, touched, held) ==
    LET t1 == IF touched THEN <<key>> \o Without(t, key) ELSE t
    IN  SelectSeq(t1, LAMBDA x : x \in held)

Oldest(t) == t[Len(t)]

PrevOf(l, key) ==
    IF key \in DOMAIN items \/ l.op # "Get" THEN NoPrev
    ELSE IF l.present /\ ~l.ok /\ Len(ll) + 1 = capacity
        THEN [kind |-> "expiredFull", key |-> l.key]
    ELSE IF l.ok /\ l.wasOldest /\ Len(ll) = capacity
        THEN [kind |-> "hitOldest", key |-> l.key]
    ELSE NoPrev

\* ---- the callers of the concurrent specification ----
\* loc[p]: where caller p is in its call, its arguments and its local variables
\*   pc    "idle" (not in a call), "lock" (in a call, blocked in c.mu.Lock();
\*         SpecCallers does not tell the two apart), a place in the body, or
\*         "unlock" (at the return, the deferred c.mu.Unlock() still to run)
\*   ele   the local *list.Element; item the Key of the local *CacheItem
\*   ret, ok  the results of Get
Idle == [pc |-> "idle", op |-> "none", key |-> 0, value |-> EmptyString, exp |-> 0,
         ele |-> Detached, item |-> 0, ret |-> EmptyString, ok |-> FALSE]

\* lastSet[k]: the value of the last Set on k, in the order the calls took the lock
\* rewrote: the key of the last Set if it replaced a different value, else 0
NeverSet == "<never set>"

\* missed[k]: what the calls since the last Set on k returned for k
\*   "no"     no Get on k returned not-found since the last Set on k
\*   "missed" a Get on k returned not-found, and no Set on k followed
\*   "others" after that, a call on a different key ran
\*   "again"  after that, a Get on k returned not-found once more
NeverMissed == [k \in Keys |-> "no"]

AfterMiss(m) == IF m \in {"others", "again"} THEN "again" ELSE "missed"

AfterOther(m) == IF m = "missed" THEN "others" ELSE m

\* ---- the HTTP program before it starts ----
\* a nil *LRUCache, and the pointer to the store NewLRUCache returns
Nil == "nil"
StoreRef == "store"

NoRequest == [handler |-> "none", key |-> 0, value |-> EmptyString, exp |-> <<>>,
              at |-> "none", n |-> 0]

\* status 0: no response written (the handler panicked and the server closed
\* the connection)
NoResponse == [handler |-> "none", key |-> 0, value |-> EmptyString, exp |-> <<>>,
               status |-> 0, body |-> EmptyString]

NoServer ==
    /\ cache = Nil
    /\ mainCache = Nil
    /\ req = NoRequest
    /\ resp = NoResponse

\* ---- NewLRUCache(capacity): empty index, empty list ----
Init ==
    /\ capacity \in 1..MaxCapacity
    /\ items = <<>>
    /\ ll = <<>>
    /\ now = 0
    /\ last = NoCall
    /\ touch = <<>>
    /\ inserted = <<>>
    /\ mu = 0
    /\ loc = [p \in Callers |-> Idle]
    /\ lastSet = [k \in Keys |-> NeverSet]
    /\ rewrote = 0
    /\ pc = 0
    /\ NoServer
    /\ missed = NeverMissed

\* a call c.Get(key) from lock to unlock
GetCall(key) ==
    \E r \in {GetOp(Store(ll, items), key, now)} :
    /\ ll' = r.s.ll
    /\ items' = r.s.items
    /\ last' = [op |-> "Get", key |-> key, value |-> r.value, ttl |-> 0, ok |-> r.ok,
                present |-> key \in DOMAIN items,
                removed |-> KeysOf(ll) \ KeysOf(r.s.ll),
                wasOldest |-> r.ok /\ Len(touch) > 1 /\ Oldest(touch) = key,
                prev |-> NoPrev,
                live |-> FALSE]
    /\ touch' = TouchAfter(touch, key, r.ok, KeysOf(r.s.ll))
    /\ UNCHANGED <<capacity, now, inserted, callVars>>

Get(key) ==
    /\ GetCall(key)
    /\ UNCHANGED <<mainVars, missed>>

\* a call c.Set(key, value, exp) from lock to unlock
SetCall(key, value, exp) ==
    \E s2 \in {SetOp(Store(ll, items), capacity, key, value, exp, now)} :
    /\ ll' = s2.ll
    /\ items' = s2.items
    /\ last' = [op |-> "Set", key |-> key, value |-> value, ttl |-> exp, ok |-> FALSE,
                present |-> key \in DOMAIN items,
                removed |-> KeysOf(ll) \ KeysOf(s2.ll),
                wasOldest |-> FALSE,
                prev |-> PrevOf(last, key),
                live |-> \E k \in KeysOf(ll) \ KeysOf(s2.ll) :
                            ~After(now, EntryOf(ll, k).Exp)]
    /\ touch' = TouchAfter(touch, key, TRUE, KeysOf(s2.ll))
    /\ UNCHANGED <<capacity, now, callVars>>

Set(key, value, exp) ==
    /\ SetCall(key, value, exp)
    /\ UNCHANGED <<inserted, mainVars, missed>>

\* the wall clock advances between calls
Tick ==
    /\ now < MaxTime
    /\ now' = now + 1
    /\ last' = NoCall
    /\ UNCHANGED <<storeVars, touch, inserted, callVars, mainVars, missed>>

Next ==
    \/ \E key \in Keys : Get(key)
    \/ \E key \in Keys, value \in Values, exp \in TTLs : Set(key, value, exp)
    \/ Tick

Spec == Init /\ [][Next]_vars

\* ---- only Sets of keys not set before, from the empty store ----
\* inserted: the keys set so far, in the order of the calls
SetNew(key, value, exp) ==
    /\ key \notin {inserted[i] : i \in 1..Len(inserted)}
    /\ SetCall(key, value, exp)
    /\ inserted' = Append(inserted, key)
    /\ UNCHANGED <<mainVars, missed>>

NextFill ==
    \/ \E key \in Keys, value \in Values, exp \in TTLs : SetNew(key, value, exp)
    \/ Tick

SpecFill == Init /\ [][NextFill]_vars

\* ---- Sets with a zero or negative duration ----
\* durations that are not positive
ExpiredTTLs == {0 - 1, 0}

SetExpired(key, value, exp) ==
    /\ exp \in ExpiredTTLs
    /\ Set(key, value, exp)

NextExpired ==
    \/ \E key \in Keys : Get(key)
    \/ \E key \in Keys, value \in Values, exp \in ExpiredTTLs : SetExpired(key, value, exp)
    \/ Tick

SpecExpired == Init /\ [][NextExpired]_vars

\* ---- the calls, with the record of the keys that were reported not found ----
MissValues == {"value1"}

GetMiss(key) ==
    /\ GetCall(key)
    /\ missed' = [k \in Keys |->
                    IF k = key
                    THEN (IF last'.ok THEN "no" ELSE AfterMiss(missed[k]))
                    ELSE AfterOther(missed[k])]
    /\ UNCHANGED mainVars

SetMiss(key, value, exp) ==
    /\ SetCall(key, value, exp)
    /\ missed' = [k \in Keys |-> IF k = key THEN "no" ELSE AfterOther(missed[k])]
    /\ UNCHANGED <<inserted, mainVars>>

NextMiss ==
    \/ \E key \in Keys : GetMiss(key)
    \/ \E key \in Keys, value \in MissValues, exp \in TTLs : SetMiss(key, value, exp)
    \/ Tick

SpecMiss == Init /\ [][NextMiss]_vars

\* ---- NewLRUCache called with any int ----
\* the capacities passed to NewLRUCache: negative, zero and positive
Capacities == (0 - 1)..MaxCapacity

InitAnyCapacity ==
    /\ capacity \in Capacities
    /\ items = <<>>
    /\ ll = <<>>
    /\ now = 0
    /\ last = NoCall
    /\ touch = <<>>
    /\ inserted = <<>>
    /\ mu = 0
    /\ loc = [p \in Callers |-> Idle]
    /\ lastSet = [k \in Keys |-> NeverSet]
    /\ rewrote = 0
    /\ pc = 0
    /\ NoServer
    /\ missed = NeverMissed

SpecAnyCapacity == InitAnyCapacity /\ [][Next]_vars

\* ---- func main of the test program: one step per statement ----
\* NewLRUCache(3)
MainCapacity == 3
\* the durations of the four Sets and of the Sleep, in seconds
Key1TTL == 5
Key2TTL == 10
Key3TTL == 15
SleepSeconds == 10
Key4TTL == 20
\* seconds that may pass between the statements besides the Sleep
MaxDrift == 3

\* the value main sets for "key<i>"
MainValue == <<"value1", "value2", "value3", "value4">>

\* the statement after the last one of main
MainEnd == 9

InitMain ==
    /\ capacity = MainCapacity
    /\ items = <<>>
    /\ ll = <<>>
    /\ now = 0
    /\ last = NoCall
    /\ touch = <<>>
    /\ inserted = <<>>
    /\ mu = 0
    /\ loc = [p \in Callers |-> Idle]
    /\ lastSet = [k \in Keys |-> NeverSet]
    /\ rewrote = 0
    /\ pc = 0
    /\ NoServer
    /\ missed = NeverMissed

\* cache.Set("key<i>", "value<i>", ttl*time.Second)
MainSet(at, key, ttl) ==
    /\ pc = at
    /\ SetCall(key, MainValue[key], ttl)
    /\ pc' = pc + 1
    /\ UNCHANGED <<inserted, serverVars, missed>>

\* value, ok = cache.Get("key<i>")
MainGet(at, key) ==
    /\ pc = at
    /\ GetCall(key)
    /\ pc' = pc + 1
    /\ UNCHANGED <<serverVars, missed>>

\* time.Sleep(10 * time.Second)
MainSleep ==
    /\ pc = 4
    /\ now' = now + SleepSeconds
    /\ pc' = pc + 1
    /\ UNCHANGED <<storeVars, last, touch, inserted, callVars, serverVars, missed>>

\* the seconds slept when main is at statement at
Slept(at) == IF at > 4 THEN SleepSeconds ELSE 0

\* a second passes between two statements
Elapse ==
    /\ pc < MainEnd
    /\ now - Slept(pc) < MaxDrift
    /\ now' = now + 1
    /\ UNCHANGED <<storeVars, last, touch, inserted, callVars, mainVars, missed>>

NextMain ==
    \/ MainSet(0, 1, Key1TTL)
    \/ MainSet(1, 2, Key2TTL)
    \/ MainSet(2, 3, Key3TTL)
    \/ MainGet(3, 1)
    \/ MainSleep
    \/ MainGet(5, 1)
    \/ MainSet(6, 4, Key4TTL)
    \/ MainGet(7, 4)
    \/ MainGet(8, 2)
    \/ Elapse

SpecMain == InitMain /\ [][NextMain]_vars

\* ---- the HTTP program: func main, handleSet, handleGet ----
\* NewLRUCache(1024)
ServerCapacity == 1024

\* a string is the sequence of its characters
Digits == <<"0", "1", "2", "3", "4", "5", "6", "7", "8", "9">>

IsDigit(c) == \E i \in 1..Len(Digits) : Digits[i] = c

DigitValue(c) == (CHOOSE i \in 1..Len(Digits) : Digits[i] = c) - 1

RECURSIVE ParseDigits(_, _)
ParseDigits(str, acc) ==
    IF str = <<>> THEN acc
    ELSE ParseDigits(Tail(str), acc * 10 + DigitValue(Head(str)))

\* Atoi that takes every string for the integer 0
AtoiLenient(str) == [n |-> 0, err |-> FALSE]

\* strconv.Atoi: an optional sign followed by one or more decimal digits
Atoi(str) ==
    LET signed == str # <<>> /\ Head(str) \in {"+", "-"}
        body == IF signed THEN Tail(str) ELSE str
        valid == body # <<>> /\ \A i \in 1..Len(body) : IsDigit(body[i])
    IN  IF valid
        THEN [n |-> IF Head(str) = "-" THEN 0 - ParseDigits(body, 0)
                    ELSE ParseDigits(body, 0),
              err |-> FALSE]
        ELSE [n |-> 0, err |-> TRUE]

\* values of the exp query parameter: decimal integers, and strings that are not
IntegerStrings == {<<"0">>, <<"1">>, <<"-", "1">>, <<"+", "1">>}
ExpStrings == IntegerStrings \cup {<<>>, <<"a", "b", "c">>, <<"1", "x">>, <<"1", ".", "5">>}

StatusOK == 200
StatusBadRequest == 400
StatusNotFound == 404

\* the response to the request being handled
Response(status, body) ==
    [handler |-> req.handler, key |-> req.key, value |-> req.value, exp |-> req.exp,
     status |-> status, body |-> body]

InitServer ==
    /\ capacity = ServerCapacity
    /\ items = <<>>
    /\ ll = <<>>
    /\ now = 0
    /\ last = NoCall
    /\ touch = <<>>
    /\ inserted = <<>>
    /\ mu = 0
    /\ loc = [p \in Callers |-> Idle]
    /\ lastSet = [k \in Keys |-> NeverSet]
    /\ rewrote = 0
    /\ pc = 0
    /\ NoServer
    /\ missed = NeverMissed

\* main: cache := NewLRUCache(1024) declares a variable of main; the
\* package-level cache is not assigned.  Then the server listens.
ServerStart ==
    /\ pc = 0
    /\ mainCache' = StoreRef
    /\ pc' = 1
    /\ UNCHANGED <<storeVars, now, last, touch, inserted, callVars, cache, req, resp, missed>>

\* the router passes a POST /set request to handleSet
ReceiveSet(key, value, expStr) ==
    /\ pc = 1
    /\ req = NoRequest
    /\ req' = [handler |-> "set", key |-> key, value |-> value, exp |-> expStr,
               at |-> "parse", n |-> 0]
    /\ UNCHANGED <<storeVars, now, last, touch, inserted, callVars, pc, cache,
                   mainCache, resp, missed>>

\* the router passes a GET /get request to handleGet
ReceiveGet(key) ==
    /\ pc = 1
    /\ req = NoRequest
    /\ req' = [handler |-> "get", key |-> key, value |-> EmptyString, exp |-> <<>>,
               at |-> "call", n |-> 0]
    /\ UNCHANGED <<storeVars, now, last, touch, inserted, callVars, pc, cache,
                   mainCache, resp, missed>>

\* handleSet: exp, err := strconv.Atoi(expStr); if err != nil { 400; return }
ParseExp ==
    /\ req.handler = "set" /\ req.at = "parse"
    /\ LET r == Atoi(req.exp)
       IN  IF r.err
           THEN /\ resp' = Response(StatusBadRequest, "Invalid expiration")
                /\ req' = NoRequest
           ELSE /\ req' = [req EXCEPT !.at = "call", !.n = r.n]
                /\ resp' = resp
    /\ UNCHANGED <<storeVars, now, last, touch, inserted, callVars, pc, cache, mainCache, missed>>

\* handleSet: cache.Set(key, value, time.Duration(exp)*time.Second);
\* w.WriteHeader(http.StatusOK).  On a nil cache c.mu.Lock() panics and the
\* server closes the connection without a response.
CallSet ==
    /\ req.handler = "set" /\ req.at = "call"
    /\ IF cache = Nil
       THEN /\ resp' = Response(0, EmptyString)
            /\ UNCHANGED <<storeVars, now, last, touch, callVars>>
       ELSE /\ SetCall(req.key, req.value, req.n)
            /\ resp' = Response(StatusOK, EmptyString)
    /\ req' = NoRequest
    /\ UNCHANGED <<inserted, pc, cache, mainCache, missed>>

\* handleGet: value, ok := cache.Get(key); if !ok { 404; return }; the value
\* is written with status 200
CallGet ==
    /\ req.handler = "get" /\ req.at = "call"
    /\ IF cache = Nil
       THEN /\ resp' = Response(0, EmptyString)
            /\ UNCHANGED <<storeVars, now, last, touch, inserted, callVars>>
       ELSE /\ GetCall(req.key)
            /\ resp' = IF last'.ok THEN Response(StatusOK, last'.value)
                       ELSE Response(StatusNotFound, "Key not found")
    /\ req' = NoRequest
    /\ UNCHANGED <<pc, cache, mainCache, missed>>

NextServer ==
    \/ ServerStart
    \/ \E key \in Keys, value \in Values, expStr \in ExpStrings :
           ReceiveSet(key, value, expStr)
    \/ \E key \in Keys : ReceiveGet(key)
    \/ ParseExp
    \/ CallSet
    \/ CallGet
    \/ Tick

SpecServer == InitServer /\ [][NextServer]_vars

\* ---- concurrent callers: one step per statement of Get and Set ----
\* the keys the concurrent callers use
CallerKeys == 1..(NumKeys - 1)

\* the variables a step of a caller leaves alone besides the store and loc
seqVars == <<last, touch, inserted, mainVars, missed>>

\* Lock that does not wait for the mutex
CanLockAlways(m) == TRUE

\* Lock that lets a second caller in while caller 1 holds the mutex
CanLockTwice(m) == m \in {0, 1}

\* c.mu.Lock() returns only when no caller holds the mutex
CanLock(m) == m = 0

\* a caller invokes Get(key) and its c.mu.Lock() returns
LockGet(p, key) ==
    /\ loc[p].pc \in {"idle", "lock"}
    /\ CanLock(mu)
    /\ mu' = p
    /\ loc' = [loc EXCEPT ![p] = [Idle EXCEPT !.pc = "lookup", !.op = "Get",
                                               !.key = key]]
    /\ UNCHANGED <<storeVars, now, seqVars, lastSet, rewrote>>

\* a caller invokes Set(key, value, exp) and its c.mu.Lock() returns
LockSet(p, key, value, exp) ==
    /\ loc[p].pc \in {"idle", "lock"}
    /\ CanLock(mu)
    /\ mu' = p
    /\ loc' = [loc EXCEPT ![p] = [Idle EXCEPT !.pc = "lookup", !.op = "Set",
                                               !.key = key, !.value = value,
                                               !.exp = exp]]
    /\ lastSet' = [lastSet EXCEPT ![key] = value]
    /\ rewrote' = IF lastSet[key] \notin {NeverSet, value} THEN key ELSE 0
    /\ UNCHANGED <<storeVars, now, seqVars>>

\* Lookup whose Get returns on a miss without the deferred Unlock
LookupMissKeepsLock(p) ==
    /\ loc[p].pc = "lookup"
    /\ loc' = IF loc[p].key \in DOMAIN items
              THEN [loc EXCEPT ![p].ele = items[loc[p].key], ![p].pc = "move"]
              ELSE IF loc[p].op = "Get"
              THEN [loc EXCEPT ![p] = Idle]
              ELSE [loc EXCEPT ![p].pc = "push"]
    /\ UNCHANGED <<storeVars, now, seqVars, mu, lastSet, rewrote>>

\* if ele, ok := c.items[key]; ok
Lookup(p) ==
    /\ loc[p].pc = "lookup"
    /\ loc' = IF loc[p].key \in DOMAIN items
              THEN [loc EXCEPT ![p].ele = items[loc[p].key], ![p].pc = "move"]
              ELSE IF loc[p].op = "Get"
              THEN [loc EXCEPT ![p].pc = "unlock"]
              ELSE [loc EXCEPT ![p].pc = "push"]
    /\ UNCHANGED <<storeVars, now, seqVars, mu, lastSet, rewrote>>

\* c.ll.MoveToFront(ele)
Move(p) ==
    /\ loc[p].pc = "move"
    /\ LET e == loc[p].ele
           s1 == MoveToFront(Store(ll, items), e)
       IN  /\ ll' = s1.ll
           /\ items' = s1.items
           /\ loc' = [q \in Callers |->
                        [loc[q] EXCEPT !.ele = MovedPtr(ll, e, loc[q].ele),
                                       !.pc = IF q # p THEN loc[q].pc
                                              ELSE IF loc[p].op = "Get" THEN "check"
                                              ELSE "update"]]
    /\ UNCHANGED <<capacity, now, seqVars, mu, lastSet, rewrote>>

\* Get: item := ele.Value.(*CacheItem); if time.Now().After(item.Exp) ...
\* else return item.Value, true
Check(p) ==
    /\ loc[p].pc = "check"
    /\ Linked(Store(ll, items), loc[p].ele)
    /\ LET item == ll[loc[p].ele]
       IN  loc' = IF After(now, item.Exp)
                  THEN [loc EXCEPT ![p].pc = "remove"]
                  ELSE [loc EXCEPT ![p].ret = item.Value, ![p].ok = TRUE,
                                   ![p].pc = "unlock"]
    /\ UNCHANGED <<storeVars, now, seqVars, mu, lastSet, rewrote>>

\* Set: item.Value = value; item.Exp = time.Now().Add(exp)
Update(p) ==
    /\ loc[p].pc = "update"
    /\ Linked(Store(ll, items), loc[p].ele)
    /\ ll' = [ll EXCEPT ![loc[p].ele].Value = loc[p].value,
                        ![loc[p].ele].Exp = now + loc[p].exp]
    /\ loc' = [loc EXCEPT ![p].pc = "unlock"]
    /\ UNCHANGED <<capacity, items, now, seqVars, mu, lastSet, rewrote>>

\* Set: ele := c.ll.PushFront(&CacheItem{key, value, time.Now().Add(exp)})
Push(p) ==
    /\ loc[p].pc = "push"
    /\ LET s1 == PushFront(Store(ll, items),
                           CacheItem(loc[p].key, loc[p].value, now + loc[p].exp))
       IN  /\ ll' = s1.ll
           /\ items' = s1.items
           /\ loc' = [q \in Callers |->
                        IF q = p THEN [loc[p] EXCEPT !.ele = 1, !.pc = "index"]
                        ELSE [loc[q] EXCEPT !.ele = PushedPtr(loc[q].ele)]]
    /\ UNCHANGED <<capacity, now, seqVars, mu, lastSet, rewrote>>

\* Set: c.items[key] = ele; if c.ll.Len() > c.capacity { c.removeOldest() }
\* removeOldest: ele := c.ll.Back(); if ele != nil { c.removeElement(ele) }
Index(p) ==
    /\ loc[p].pc = "index"
    /\ items' = MapPut(items, loc[p].key, loc[p].ele)
    /\ loc' = IF Len(ll) > capacity /\ Back(Store(ll, items)) # Detached
              THEN [loc EXCEPT ![p].ele = Back(Store(ll, items)), ![p].pc = "remove"]
              ELSE [loc EXCEPT ![p].pc = "unlock"]
    /\ UNCHANGED <<capacity, ll, now, seqVars, mu, lastSet, rewrote>>

\* removeElement: c.ll.Remove(ele); item := ele.Value.(*CacheItem)
Unlink(p) ==
    /\ loc[p].pc = "remove"
    /\ Linked(Store(ll, items), loc[p].ele)
    /\ LET e == loc[p].ele
           s1 == Remove(Store(ll, items), e)
       IN  /\ ll' = s1.ll
           /\ items' = s1.items
           /\ loc' = [q \in Callers |->
                        IF q = p THEN [loc[p] EXCEPT !.ele = Detached,
                                                     !.item = ll[e].Key,
                                                     !.pc = "delete"]
                        ELSE [loc[q] EXCEPT !.ele = RemovedPtr(ll, e, loc[q].ele)]]
    /\ UNCHANGED <<capacity, now, seqVars, mu, lastSet, rewrote>>

\* removeElement: delete(c.items, item.Key); then the caller returns
Delete(p) ==
    /\ loc[p].pc = "delete"
    /\ items' = MapDelete(items, loc[p].item)
    /\ loc' = [loc EXCEPT ![p].pc = "unlock"]
    /\ UNCHANGED <<capacity, ll, now, seqVars, mu, lastSet, rewrote>>

\* the deferred c.mu.Unlock() runs and the call returns
Unlock(p) ==
    /\ loc[p].pc = "unlock"
    /\ mu' = 0
    /\ loc' = [loc EXCEPT ![p] = Idle]
    /\ UNCHANGED <<storeVars, now, seqVars, lastSet, rewrote>>

NextCallers ==
    \/ \E p \in Callers, key \in CallerKeys : LockGet(p, key)
    \/ \E p \in Callers, key \in CallerKeys, value \in Values, exp \in TTLs :
           LockSet(p, key, value, exp)
    \/ \E p \in Callers : Lookup(p)
    \/ \E p \in Callers : Move(p)
    \/ \E p \in Callers : Check(p)
    \/ \E p \in Callers : Update(p)
    \/ \E p \in Callers : Push(p)
    \/ \E p \in Callers : Index(p)
    \/ \E p \in Callers : Unlink(p)
    \/ \E p \in Callers : Delete(p)
    \/ \E p \in Callers : Unlock(p)
    \/ Tick

SpecCallers == Init /\ [][NextCallers]_vars

\* ---- concurrent callers under fair scheduling ----
\* a caller invokes Get or Set and blocks in c.mu.Lock()
Call(p) ==
    /\ loc[p].pc = "idle"
    /\ loc' = [loc EXCEPT ![p].pc = "lock"]
    /\ UNCHANGED <<storeVars, now, seqVars, mu, lastSet, rewrote>>

\* the callers all use the same two keys and one value: with capacity 1 every
\* return path of Get and Set is taken
FairKeys == {1, 2}
FairValues == {"value1"}

\* the c.mu.Lock() of a blocked caller returns
Acquire(p) ==
    /\ loc[p].pc = "lock"
    /\ \/ \E key \in FairKeys : LockGet(p, key)
       \/ \E key \in FairKeys, value \in FairValues, exp \in TTLs :
              LockSet(p, key, value, exp)

\* the next statement of a caller that holds the mutex
Step(p) ==
    \/ Lookup(p)
    \/ Move(p)
    \/ Check(p)
    \/ Update(p)
    \/ Push(p)
    \/ Index(p)
    \/ Unlink(p)
    \/ Delete(p)
    \/ Unlock(p)

NextFair ==
    \/ \E p \in Callers : Call(p)
    \/ \E p \in Callers : Acquire(p)
    \/ \E p \in Callers : Step(p)
    \/ Tick

\* the scheduler runs every runnable goroutine; sync.Mutex hands the mutex to a
\* caller that keeps waiting (starvation mode)
Fairness ==
    \A p \in Callers : WF_vars(Step(p)) /\ SF_vars(Acquire(p))

SpecFair == Init /\ [][NextFair]_vars /\ Fairness

\* ---------------------------------------------------------------------------
\* C1: with capacity > 0, after any sequence of Get and Set calls and clock
\* advances, the number of entries held when a call returns never exceeds
\* capacity.
C1_CapacityBound ==
    /\ capacity > 0
    /\ Len(ll) <= capacity
    /\ Cardinality(DOMAIN items) <= capacity

\* a Set of a new key into a full store has returned, and the store is full
C1_Witness ==
    /\ last.op = "Set" /\ ~last.present /\ last.removed # {}
    /\ Len(ll) = capacity

\* C2: after any sequence of calls the index and the recency list hold the same
\* keys: every index entry points to a list element carrying that key, every
\* list element's key is in the index, and no key is twice in the list.
C2_IndexMatchesList ==
    /\ \A k \in DOMAIN items : items[k] \in 1..Len(ll) /\ ll[items[k]].Key = k
    /\ \A i \in 1..Len(ll) : ll[i].Key \in DOMAIN items
    /\ \A i, j \in 1..Len(ll) : ll[i].Key = ll[j].Key => i = j
    /\ DOMAIN items = KeysOf(ll)

\* an entry was removed (by expiry or by eviction) and another is still held
C2_Witness ==
    /\ last.removed # {}
    /\ last.op = "Get"
    /\ Len(ll) >= 1

\* C3 as stated: whenever the key is present and expiresAt <= now (expiresAt =
\* now included), Get removes the entry from the index and the list and
\* returns ("", false).
C3_ExpiredAtOrBeforeNow ==
    [][\A k \in Keys :
        (last'.op = "Get" /\ last'.key = k /\ k \in DOMAIN items /\ k \in KeysOf(ll)
            /\ EntryOf(ll, k).Exp <= now)
        => /\ ~last'.ok
           /\ last'.value = EmptyString
           /\ k \notin DOMAIN items'
           /\ k \notin KeysOf(ll')]_vars

\* C3 (amended): Get never returns found for an entry whose expiresAt is
\* strictly before the current time: whenever the key is present and
\* expiresAt < now, Get removes the entry from the index and the list and
\* returns ("", false).
C3_ExpiredBeforeNow ==
    [][\A k \in Keys :
        (last'.op = "Get" /\ last'.key = k /\ k \in DOMAIN items)
        => /\ k \in KeysOf(ll)
           /\ EntryOf(ll, k).Exp < now
                => /\ ~last'.ok
                   /\ last'.value = EmptyString
                   /\ k \notin DOMAIN items'
                   /\ k \notin KeysOf(ll')
           /\ last'.ok => EntryOf(ll, k).Exp >= now]_vars

\* a Get found its key in the index, expired, and removed it
C3_Witness ==
    /\ last.op = "Get" /\ last.present /\ ~last.ok
    /\ last.removed = {last.key}
    /\ last.key \notin DOMAIN items

\* C5: when Set inserts an absent key into a store that holds capacity entries,
\* exactly one entry is evicted, and it is the held entry whose last touch (a
\* Set on it, or a Get that found it) is the oldest.
C5_EvictsLeastRecentlyTouched ==
    [][\A k \in Keys :
        (last'.op = "Set" /\ last'.key = k /\ k \notin DOMAIN items
            /\ Len(ll) = capacity)
        => /\ Len(touch) = capacity
           /\ last'.removed = {Oldest(touch)}
           /\ KeysOf(ll') = (KeysOf(ll) \ {Oldest(touch)}) \cup {k}
           /\ DOMAIN items' = KeysOf(ll')
           /\ Len(ll') = capacity]_vars

\* a Get found the least recently touched key of a full store, then a Set of a
\* new key evicted another key and kept that one
C5_Witness ==
    /\ last.op = "Set" /\ ~last.present
    /\ last.prev.kind = "hitOldest"
    /\ Cardinality(last.removed) = 1
    /\ last.prev.key \notin last.removed
    /\ last.prev.key \in DOMAIN items
    /\ last.key \in DOMAIN items

\* C6: from the empty store with capacity c, after Set on c + k distinct keys
\* and nothing else, the store holds exactly the last c keys set; each Set
\* beyond the c-th evicted one key, the earliest set that was still held.
C6_KeepsLastInserted ==
    LET n == Len(inserted)
        m == IF n < capacity THEN n ELSE capacity
    IN  /\ KeySeq(ll) = [i \in 1..m |-> inserted[n - i + 1]]
        /\ DOMAIN items = {inserted[n - i + 1] : i \in 1..m}
        /\ last.op = "Set" =>
               last.removed = IF n > capacity THEN {inserted[n - capacity]} ELSE {}

\* two keys more than the capacity were set
C6_Witness ==
    /\ Len(inserted) >= capacity + 2
    /\ last.op = "Set"

\* the entries of l other than the one for key k, in order
Others(l, k) == SelectSeq(l, LAMBDA e : e.Key # k)

\* C7: when a Get that returns found, or a Set on a key already present,
\* returns, that key's entry is at the front of the recency list and the
\* relative order of all other entries is unchanged.
C7_TouchMovesToFront ==
    [][\A k \in Keys :
        (last'.key = k /\ k \in DOMAIN items
            /\ ((last'.op = "Get" /\ last'.ok) \/ last'.op = "Set"))
        => /\ Len(ll') >= 1
           /\ ll'[1].Key = k
           /\ items'[k] = 1
           /\ Others(ll', k) = Others(ll, k)]_vars

\* a Get found the key that was the least recently touched of several
C7_Witness ==
    /\ last.op = "Get" /\ last.ok /\ last.wasOldest
    /\ Len(ll) >= 2
    /\ ll[1].Key = last.key

\* C8: Set on a key present in the index, expired or not, store full or not,
\* overwrites that entry's value and expiresAt (now + ttl), leaves the entry
\* count unchanged and removes no entry; every other entry keeps its key,
\* value and expiresAt.
C8_OverwriteInPlace ==
    [][\A k \in Keys :
        (last'.op = "Set" /\ last'.key = k /\ k \in DOMAIN items)
        => /\ Len(ll') = Len(ll)
           /\ DOMAIN items' = DOMAIN items
           /\ KeysOf(ll') = KeysOf(ll)
           /\ last'.removed = {}
           /\ EntryOf(ll', k) = CacheItem(k, last'.value, now + last'.ttl)
           /\ \A j \in KeysOf(ll) \ {k} : EntryOf(ll', j) = EntryOf(ll, j)]_vars

\* a Set overwrote an entry of a full store of several entries
C8_Witness ==
    /\ last.op = "Set" /\ last.present
    /\ Len(ll) = capacity /\ capacity >= 2

\* C9: Get on a key that is not in the store returns ("", false) and leaves
\* the store as it was: same entries, values, expiresAt and recency order.
C9_MissChangesNothing ==
    [][\A k \in Keys :
        (last'.op = "Get" /\ last'.key = k /\ k \notin DOMAIN items)
        => /\ ~last'.ok
           /\ last'.value = EmptyString
           /\ ll' = ll
           /\ items' = items
           /\ capacity' = capacity]_vars

\* a Get missed on a key absent from a store that holds entries
C9_Witness ==
    /\ last.op = "Get" /\ ~last.present /\ ~last.ok
    /\ Len(ll) >= 1

\* C10: after a Get that finds its key expired, the key is absent from the
\* index and the list, the entry count is one less, the other entries keep
\* their order; a Set of a new key into a store with a free slot (as a full
\* store has after that Get) evicts nothing.
C10_ExpiredFreesSlot ==
    [][\A k \in Keys :
        /\ (last'.op = "Get" /\ last'.key = k /\ k \in DOMAIN items /\ ~last'.ok)
           => /\ k \notin DOMAIN items'
              /\ k \notin KeysOf(ll')
              /\ Len(ll') = Len(ll) - 1
              /\ Cardinality(DOMAIN items') = Cardinality(DOMAIN items) - 1
              /\ ll' = Others(ll, k)
        /\ (last'.op = "Set" /\ last'.key = k /\ k \notin DOMAIN items
                /\ Len(ll) < capacity)
           => /\ last'.removed = {}
              /\ Len(ll') = Len(ll) + 1
              /\ KeysOf(ll') = KeysOf(ll) \cup {k}]_vars

\* a Get found its key expired in a full store, then a Set of a new key filled
\* the store again and evicted nothing
C10_Witness ==
    /\ last.op = "Set" /\ ~last.present
    /\ last.prev.kind = "expiredFull"
    /\ last.removed = {}
    /\ Len(ll) = capacity /\ capacity >= 2

\* C4: whenever Get(key) returns found, the value returned is the value passed
\* to the most recent Set on that key in the order in which the calls acquired
\* the store lock.
C4_GetReturnsLastSet ==
    \A p \in Callers :
        (loc[p].pc = "unlock" /\ loc[p].op = "Get" /\ loc[p].ok)
        => /\ lastSet[loc[p].key] # NeverSet
           /\ loc[p].ret = lastSet[loc[p].key]

\* a Get is about to return found for a key whose last Set replaced the
\* different value of an earlier Set
C4_Witness ==
    \E p \in Callers :
        /\ loc[p].pc = "unlock" /\ loc[p].op = "Get" /\ loc[p].ok
        /\ rewrote = loc[p].key
        /\ loc[p].ret = "value1"

\* C11 as stated: Set with a zero or negative ttl stores the entry, and the
\* next Get on the key, the clock not having advanced since the Set, returns
\* not-found.
C11_ZeroOrNegativeExpired ==
    [][\A k \in Keys :
        /\ (last'.op = "Set" /\ last'.key = k /\ last'.ttl <= 0)
           => k \in DOMAIN items' /\ k \in KeysOf(ll')
        /\ (last.op = "Set" /\ last.key = k /\ last.ttl <= 0
                /\ last'.op = "Get" /\ last'.key = k /\ now' = now)
           => ~last'.ok]_vars

\* C11 (amended): Set with a zero or negative ttl stores the entry with
\* expiresAt = now + ttl.  The next Get on the key at the same clock reading
\* returns not-found and removes the entry when the ttl is negative, and
\* returns the value as found when the ttl is zero.
C11_NegativeExpiredZeroFound ==
    [][\A k \in Keys :
        /\ (last'.op = "Set" /\ last'.key = k /\ last'.ttl <= 0)
           => /\ k \in DOMAIN items' /\ k \in KeysOf(ll')
              /\ EntryOf(ll', k) = CacheItem(k, last'.value, now + last'.ttl)
        /\ (last.op = "Set" /\ last.key = k /\ last.ttl <= 0
                /\ last'.op = "Get" /\ last'.key = k /\ now' = now)
           => /\ last.ttl < 0 => (~last'.ok /\ last'.value = EmptyString
                                    /\ k \notin DOMAIN items')
              /\ last.ttl = 0 => (last'.ok /\ last'.value = last.value
                                    /\ k \in DOMAIN items')]_vars

\* at the first clock reading a Get found its key in the index, expired: the
\* entry was set with a negative ttl and the clock has not advanced since
C11_Witness ==
    /\ now = 0
    /\ last.op = "Get" /\ last.present /\ ~last.ok
    /\ last.removed = {last.key}

C13_NonPositiveRejected ==
    capacity <= 0 => last.op = "none"

\* C14: with two or more callers running Get and Set concurrently on the same
\* keys, at most one caller is inside the body of a store operation at any
\* time and it is the holder of the mutex; in every state in which no caller
\* holds the mutex the capacity bound and the index/list key-set equality hold.
C14_MutexProtectsStore ==
    /\ \A p, q \in Callers :
           (loc[p].pc # "idle" /\ loc[q].pc # "idle") => p = q
    /\ \A p \in Callers : loc[p].pc # "idle" <=> mu = p
    /\ mu = 0 => (C1_CapacityBound /\ C2_IndexMatchesList)

\* the mutex is free, the store is full with several entries, and the last Set
\* replaced the value an earlier Set wrote for the same key
C14_Witness ==
    /\ mu = 0
    /\ \A p \in Callers : loc[p].pc = "idle"
    /\ Len(ll) = capacity /\ capacity >= 2
    /\ rewrote \in DOMAIN items

\* C15 as stated: after startup a Set request with an integer exp is applied
\* to the store main constructed and answered with 200, and a Get request for
\* a key so set is answered with 200 and that value: the handlers operate on
\* the store initialized at startup.
C15_HandlersUseStartupStore ==
    /\ (resp.handler = "set" /\ resp.exp \in IntegerStrings)
       => (resp.status = StatusOK /\ cache = mainCache /\ resp.key \in DOMAIN items)
    /\ (resp.handler = "get" /\ resp.key \in DOMAIN items
            /\ ~After(now, EntryOf(ll, resp.key).Exp))
       => (resp.status = StatusOK /\ resp.body = EntryOf(ll, resp.key).Value)

\* C16: a Set request whose exp parameter is not an integer is answered with
\* 400 and Set is not called: the request never reaches the call, and the
\* entries, values, expiresAt and order of the store are unchanged.
C16_BadExpRejected ==
    [][/\ (req.handler = "set" /\ req.exp \notin IntegerStrings /\ req' # req)
          => /\ req' = NoRequest
             /\ resp'.status = StatusBadRequest
             /\ resp'.handler = "set" /\ resp'.exp = req.exp
             /\ UNCHANGED <<capacity, items, ll>>
       /\ (req'.handler = "set" /\ req'.at = "call")
          => req'.exp \in IntegerStrings
       /\ (resp' # resp /\ resp'.status = StatusBadRequest)
          => resp'.exp \notin IntegerStrings]_vars

\* a Set request whose exp is not an integer has been answered with 400, and
\* another Set request, with an integer exp, has passed the parse
C16_Witness ==
    /\ resp.handler = "set" /\ resp.status = StatusBadRequest
    /\ resp.exp = <<"1", ".", "5">>
    /\ req.handler = "set" /\ req.at = "call"

\* C17: expiration is lazy only.  An entry leaves the store only by a Get on
\* its key that finds it expired, or by being the least recently touched entry
\* when a Set inserts a new key into a full store; the clock advancing removes
\* nothing.  That Set evicts the least recently touched entry whether or not
\* it is expired, and every other entry, expired or not, stays.
C17_LazyExpiryOnly ==
    [][/\ \A k \in KeysOf(ll) \ KeysOf(ll') :
            \/ /\ last'.op = "Get" /\ last'.key = k
               /\ After(now, EntryOf(ll, k).Exp)
            \/ /\ last'.op = "Set" /\ last'.key \notin DOMAIN items
               /\ Len(ll) = capacity
               /\ k = Oldest(touch)
       /\ now' # now => (ll' = ll /\ items' = items)
       /\ (last'.op = "Set" /\ last'.key \notin DOMAIN items /\ Len(ll) = capacity)
          => /\ KeysOf(ll) \ KeysOf(ll') = {Oldest(touch)}
             /\ \A j \in KeysOf(ll) \ {Oldest(touch)} :
                    j \in DOMAIN items' /\ EntryOf(ll', j) = EntryOf(ll, j)
             /\ Len(ll') = capacity]_vars

\* a Set of a new key into a full store evicted an entry that was not expired
\* while an entry that is expired stays in the store
C17_Witness ==
    /\ last.op = "Set" /\ ~last.present
    /\ Cardinality(last.removed) = 1 /\ last.live
    /\ Len(ll) = capacity
    /\ \E i \in 1..Len(ll) : ll[i].Key # last.key /\ After(now, ll[i].Exp)

\* C18: under fair scheduling every Get and Set call eventually returns: a
\* caller blocked in Lock or inside the body of Get or Set is eventually back
\* outside the call, and a held mutex is eventually released.
C18_EveryCallReturns ==
    /\ \A p \in Callers : (loc[p].pc # "idle") ~> (loc[p].pc = "idle")
    /\ (mu # 0) ~> (mu = 0)

\* a caller is blocked in Lock while another holds the mutex and is about to
\* remove an entry
C18_Witness ==
    \E p, q \in Callers :
        /\ loc[p].pc = "lock"
        /\ mu = q /\ loc[q].pc = "remove"

\* C19: Get changes no entry's value or expiresAt.  A Get that finds its key
\* only reorders the list and returns the stored value; every entry held after
\* a Get is an entry held before it, unchanged.  A Set writes expiresAt = now +
\* ttl, the clock advancing changes no entry, and a Get on a key whose
\* expiresAt is before now returns not-found: so an entry set at time t with
\* ttl d is not found by any Get after t + d unless a Set intervened.
C19_GetKeepsEntries ==
    [][/\ \A k \in Keys :
            (last'.op = "Get" /\ last'.key = k)
            => /\ \A j \in KeysOf(ll') :
                      j \in KeysOf(ll) /\ EntryOf(ll', j) = EntryOf(ll, j)
               /\ last'.ok
                    => /\ k \in KeysOf(ll) /\ k \in KeysOf(ll')
                       /\ last'.value = EntryOf(ll, k).Value
                       /\ KeysOf(ll') = KeysOf(ll)
               /\ (k \in KeysOf(ll) /\ now > EntryOf(ll, k).Exp) => ~last'.ok
       /\ \A k \in Keys :
            (last'.op = "Set" /\ last'.key = k /\ k \in KeysOf(ll'))
            => EntryOf(ll', k).Exp = now + last'.ttl
       /\ last'.op = "none" => ll' = ll]_vars

\* after the clock advanced, a Get found the least recently touched of several
\* entries at the very instant of its expiresAt, which it left as it was
C19_Witness ==
    /\ last.op = "Get" /\ last.ok /\ last.wasOldest
    /\ now > 0
    /\ EntryOf(ll, last.key).Exp = now

\* C20: the clock never going back, once Get(key) has returned not-found every
\* later Get(key) returns not-found until a Set on that key; calls on other
\* keys and the passing of time do not make the key found again.
C20_NotFoundUntilSet ==
    [][\A k \in Keys :
          (missed[k] # "no" /\ last'.op = "Get" /\ last'.key = k)
          => /\ ~last'.ok
             /\ last'.value = EmptyString
             /\ k \notin DOMAIN items']_vars

\* a key held before was reported not found, calls on other keys followed, of
\* which one is still held, time passed, and a further Get on the key has just
\* reported it not found again
C20_Witness ==
    /\ last.op = "Get" /\ ~last.ok
    /\ missed[last.key] = "again"
    /\ now > 0
    /\ Len(ll) >= 1

====
